---- MODULE Spec2Model ----
(***************************************************************************)
(* A model of the connext_starter_kit C++ utilities:                       *)
(*   - the parameter service (DDSServerParameterSetup and                  *)
(*     DDSClientParameterSetup) over request/response topics,              *)
(*   - the status dispatch of DDSReaderSetup / DDSWriterSetup,             *)
(*   - the attachment of conditions to the shared AsyncWaitSet,            *)
(*   - DDSWriterSetup::wait_for_drs_to_match,                              *)
(*   - DDSParticipantSetup's constructor,                                  *)
(*   - application::parse_arguments and the start of main.                 *)
(* Each part has its own specification over the shared variables; the      *)
(* variables of the other parts stay at their initial values.              *)
(***************************************************************************)
EXTENDS Integers, Sequences, FiniteSets, TLC

VARIABLES
    \* ---- parameter service ----
    server,                \* per server: _parameters and the three pending lists
    server_callback,       \* per server: is _server_callback non-null
    set_request_reader,    \* per server: samples in _set_request_reader (behind the CFT)
    get_request_reader,    \* per server: samples in _get_request_reader
    list_request_reader,   \* per server: samples in _list_request_reader
    set_response_reader,   \* client: samples in _set_response_reader
    get_response_reader,   \* client: samples in _get_response_reader
    list_response_reader,  \* client: samples in _list_response_reader
    client,                \* client: _next_request_id and the call in progress
    now,                   \* steady_clock::now() since the call began, in sleep quanta
    env_count,             \* number of inputs the rest of the system has made so far
    last,                  \* what the last operation read and wrote
    \* ---- the other parts ----
    participant,           \* DDSParticipantSetup: the constructor call and its outcome
    dispatch,              \* DDSReaderSetup / DDSWriterSetup: callbacks and the last dispatch
    aws,                   \* the AsyncWaitSet's attached conditions and their owners
    match,                 \* DDSWriterSetup::wait_for_drs_to_match and what it polls
    app,                   \* an application's main: argv, parse result, exit code
    dyn,                   \* dynamic_partition_qos: run()'s two threads and standard input
    fin,                   \* an application's main from its try block to its return
    cmd,                   \* command_override: run()'s publish loop
    race                   \* a server's store and the threads that run on it, statement by statement

paramVars == << server, server_callback, set_request_reader, get_request_reader,
                list_request_reader, set_response_reader, get_response_reader,
                list_response_reader, client, now, env_count, last >>

otherVars == << participant, dispatch, aws, match, app >>

laterVars == << dyn, fin, cmd, race >>

vars == << paramVars, otherVars, laterVars >>

(***************************************************************************)
(* Bounds of the model.                                                    *)
(***************************************************************************)
MaxLen == 2        \* longest parameter / name list of a request or API call
MaxEnv == 2        \* application calls on a server
MaxResponses == 2  \* unread samples the response readers of the client hold
MaxQueue == 1      \* unread samples the request readers of a server hold

(***************************************************************************)
(* Values.                                                                 *)
(***************************************************************************)
Nodes == {"n1"}                        \* node names that have a server
TargetNodes == Nodes \cup {"n2"}       \* node names a request can carry
Names == { <<"a">>, <<"a", ".", "b">> }  \* parameter names, as character sequences
Values == {1, 2}                       \* parameter values
Parameter == [name : Names, value : Values]
Timeouts == {0, 2}                     \* timeouts of a client call, in sleep quanta
SleepTicks == {1, 2}                   \* sleep_for(10ms) lasts at least one quantum

RECURSIVE SeqsUpTo(_, _)
SeqsUpTo(S, n) ==
    IF n = 0 THEN { <<>> }
    ELSE LET shorter == SeqsUpTo(S, n - 1)
         IN shorter \cup { Append(q, x) : q \in { r \in shorter : Len(r) = n - 1 }, x \in S }

ParamLists == SeqsUpTo(Parameter, MaxLen)
\* the parameters requests carry: a name twice with different values, and another name
RequestParameter ==
    { [name |-> <<"a">>, value |-> 1], [name |-> <<"a">>, value |-> 2],
      [name |-> <<"a", ".", "b">>, value |-> 1] }
\* a request carries no, one or two of them
RequestParamLists == SeqsUpTo(RequestParameter, 2)
RequestIds == {1, 2}                   \* request ids samples carry
CallIds == {1}                         \* request ids the client's calls get
NameLists == SeqsUpTo(Names, MaxLen)
PrefixLists == { << >>, << <<"a", ".">> >> }
Depths == {0, 1}

Range(q) == { q[i] : i \in 1..Len(q) }

(***************************************************************************)
(* DDSServerParameterSetup: parameter storage and event publishing.        *)
(* A server state st is [parameters, pending_new, pending_changed,         *)
(* pending_deleted]; parameters is the std::map from name to Parameter.    *)
(***************************************************************************)
EmptyServer ==
    [parameters |-> << >>, pending_new |-> << >>,
     pending_changed |-> << >>, pending_deleted |-> << >>]

has_parameter(st, name) == name \in DOMAIN st.parameters

Erase(f, k) == [x \in (DOMAIN f) \ {k} |-> f[x]]

Stored(st, param) ==
    [n \in (DOMAIN st.parameters) \cup {param.name} |->
        IF n = param.name THEN param ELSE st.parameters[n]]

set_parameter_always_new(st, param) ==
    [st EXCEPT !.parameters = Stored(st, param), !.pending_new = Append(@, param)]

set_parameter(st, param) ==
    LET is_new == ~ has_parameter(st, param.name)
    IN IF is_new
       THEN [st EXCEPT !.parameters = Stored(st, param),
                       !.pending_new = Append(@, param)]
       ELSE [st EXCEPT !.parameters = Stored(st, param),
                       !.pending_changed = Append(@, param)]

\* publish_event: the state afterwards and the events written to _event_writer
publish_event(st, node_name) ==
    IF st.pending_new = << >> /\ st.pending_changed = << >> /\ st.pending_deleted = << >>
    THEN [state |-> st, events |-> << >>]
    ELSE [state |-> [st EXCEPT !.pending_new = << >>,
                               !.pending_changed = << >>,
                               !.pending_deleted = << >>],
          events |-> << [node_id |-> node_name,
                         new_parameters |-> st.pending_new,
                         changed_parameters |-> st.pending_changed,
                         deleted_parameters |-> st.pending_deleted] >>]

RECURSIVE SetEach(_, _)
SetEach(st, params) ==
    IF params = << >> THEN st
    ELSE SetEach(set_parameter(st, Head(params)), Tail(params))

set_parameters(st, node_name, params) == publish_event(SetEach(st, params), node_name)

delete_parameter(st, node_name, name) ==
    IF has_parameter(st, name)
    THEN publish_event([st EXCEPT !.pending_deleted = Append(@, st.parameters[name]),
                                  !.parameters = Erase(st.parameters, name)],
                       node_name)
    ELSE publish_event(st, node_name)

\* std::map iterates its keys in lexicographic order
NamesSorted == << <<"a">>, <<"a", ".", "b">> >>

IsPrefix(prefix, name) ==
    /\ Len(prefix) <= Len(name)
    /\ \A i \in 1..Len(prefix) : prefix[i] = name[i]

Dots(name) == Cardinality({ i \in 1..Len(name) : name[i] = "." })

list_parameter_names(st, prefix, depth) ==
    SelectSeq(NamesSorted,
              LAMBDA n : /\ n \in DOMAIN st.parameters
                         /\ (prefix = << >> \/ IsPrefix(prefix, n))
                         /\ ~ (depth > 0 /\ Dots(n) >= depth))

(***************************************************************************)
(* The request handlers.  Each returns the state afterwards, the responses *)
(* written and the events written, for the samples one take() returned.    *)
(***************************************************************************)
SuccessResult == [successful |-> TRUE, reason |-> ""]

\* the samples written with one writer, as entries of the order of writes
Writes(writer, samples) ==
    [i \in 1..Len(samples) |-> [writer |-> writer, sample |-> samples[i]]]

\* default_set_handler without its call of publish_event
default_set_handler_no_publish(st, node_name, request) ==
    [state |-> SetEach(st, request.parameters),
     response |-> [valid |-> TRUE, node_id |-> node_name,
                   request_id |-> request.request_id,
                   results |-> [i \in 1..Len(request.parameters) |-> SuccessResult]],
     events |-> << >>]

default_set_handler(st, node_name, request) ==
    LET published == publish_event(SetEach(st, request.parameters), node_name)
    IN [state |-> published.state,
        response |-> [valid |-> TRUE, node_id |-> node_name,
                      request_id |-> request.request_id,
                      results |-> [i \in 1..Len(request.parameters) |-> SuccessResult]],
        events |-> published.events]

RECURSIVE handle_set_requests_no_callback(_, _, _, _, _)
handle_set_requests_no_callback(st, node_name, has_callback, samples, cb) ==
    IF samples = << >>
    THEN [state |-> st, responses |-> << >>, events |-> << >>, writes |-> << >>]
    ELSE IF ~ Head(samples).valid
    THEN handle_set_requests_no_callback(st, node_name, has_callback, Tail(samples), Tail(cb))
    ELSE LET one == default_set_handler(st, node_name, Head(samples))
             rest == handle_set_requests_no_callback(one.state, node_name, has_callback,
                                                     Tail(samples), Tail(cb))
         IN [state |-> rest.state,
             responses |-> << one.response >> \o rest.responses,
             events |-> one.events \o rest.events,
             writes |-> Writes("_event_writer", one.events)
                        \o Writes("_set_response_writer", << one.response >>)
                        \o rest.writes]

\* cb[i] is what _server_callback returns for samples[i]
RECURSIVE handle_set_requests(_, _, _, _, _)
handle_set_requests(st, node_name, has_callback, samples, cb) ==
    IF samples = << >>
    THEN [state |-> st, responses |-> << >>, events |-> << >>, writes |-> << >>]
    ELSE IF ~ Head(samples).valid
    THEN handle_set_requests(st, node_name, has_callback, Tail(samples), Tail(cb))
    ELSE LET one == IF has_callback
                    THEN [state |-> st, response |-> Head(cb), events |-> << >>]
                    ELSE default_set_handler(st, node_name, Head(samples))
             rest == handle_set_requests(one.state, node_name, has_callback,
                                         Tail(samples), Tail(cb))
         IN [state |-> rest.state,
             responses |-> << one.response >> \o rest.responses,
             events |-> one.events \o rest.events,
             writes |-> Writes("_event_writer", one.events)
                        \o Writes("_set_response_writer", << one.response >>)
                        \o rest.writes]

RECURSIVE GetEach_reversed(_, _)
GetEach_reversed(st, names) ==
    IF names = << >> THEN << >>
    ELSE GetEach_reversed(st, Tail(names))
         \o (IF has_parameter(st, Head(names)) THEN << st.parameters[Head(names)] >> ELSE << >>)

RECURSIVE GetEach(_, _)
GetEach(st, names) ==
    IF names = << >> THEN << >>
    ELSE (IF has_parameter(st, Head(names)) THEN << st.parameters[Head(names)] >> ELSE << >>)
         \o GetEach(st, Tail(names))

RECURSIVE handle_get_requests(_, _, _)
handle_get_requests(st, node_name, samples) ==
    IF samples = << >> THEN [state |-> st, responses |-> << >>, events |-> << >>]
    ELSE LET rest == handle_get_requests(st, node_name, Tail(samples))
         IN IF ~ Head(samples).valid THEN rest
            ELSE [rest EXCEPT !.responses =
                    << [valid |-> TRUE, node_id |-> node_name,
                        request_id |-> Head(samples).request_id,
                        parameters |-> GetEach(st, Head(samples).names)] >> \o @]

RECURSIVE ListEach(_, _, _)
ListEach(st, prefixes, depth) ==
    IF prefixes = << >> THEN << >>
    ELSE list_parameter_names(st, Head(prefixes), depth) \o ListEach(st, Tail(prefixes), depth)

RECURSIVE handle_list_requests(_, _, _)
handle_list_requests(st, node_name, samples) ==
    IF samples = << >> THEN [state |-> st, responses |-> << >>, events |-> << >>]
    ELSE LET rest == handle_list_requests(st, node_name, Tail(samples))
             request == Head(samples)
         IN IF ~ request.valid THEN rest
            ELSE [rest EXCEPT !.responses =
                    << [valid |-> TRUE, node_id |-> node_name,
                        request_id |-> request.request_id,
                        names |-> IF Len(request.prefixes) = 0
                                  THEN list_parameter_names(st, << >>, request.depth)
                                  ELSE ListEach(st, request.prefixes, request.depth)] >> \o @]

(***************************************************************************)
(* The middleware between the endpoints.  A request written on a request   *)
(* topic reaches the reader of every server whose content filter           *)
(* "node_id = '<node_name>'" it passes; a response reaches the client's    *)
(* reader unfiltered.  A sample without valid data (a notification of an   *)
(* instance state change) carries no readable data.                        *)
(***************************************************************************)
InvalidSample == [valid |-> FALSE]

cft_filter_none(node_name, sample) == TRUE

cft_filter(node_name, sample) == sample.node_id = node_name

Deliver(readers, sample) ==
    [s \in Nodes |-> IF cft_filter(s, sample) THEN Append(readers[s], sample)
                     ELSE readers[s]]

\* what a SetParametersCallback supplied by the application can return
CallbackResponses ==
    [valid : {TRUE}, node_id : TargetNodes, request_id : RequestIds,
     results : { << [successful |-> FALSE, reason |-> "denied"] >> }]

NoCallback == [valid |-> TRUE, node_id |-> "n1", request_id |-> 1, results |-> << >>]

\* writes is the order of the writes; the set handler, which alone writes both
\* events and responses, gives its own
Last(op, node, samples, params, cb, before, responses, events) ==
    [op |-> op, node |-> node, samples |-> samples, params |-> params, cb |-> cb,
     before |-> before, responses |-> responses, events |-> events,
     writes |-> Writes("_event_writer", events) \o Writes("response", responses)]

NoLast == Last("other", "", << >>, << >>, << >>, EmptyServer, << >>, << >>)

clientVars == << set_response_reader, get_response_reader, list_response_reader,
                 client, now >>

serverVars == << server, server_callback, last >>

(***************************************************************************)
(* The server's handlers, dispatched by the AsyncWaitSet when the read     *)
(* condition of a request reader has unread samples.  The responses and    *)
(* events a handler writes are recorded in last.                           *)
(***************************************************************************)
HandleSetRequests(s) ==
    LET samples == set_request_reader[s]
    IN /\ samples # << >>
       /\ \E cb \in [1..Len(samples) ->
                        IF server_callback[s] THEN CallbackResponses ELSE {NoCallback}] :
            LET out == handle_set_requests(server[s], s, server_callback[s], samples, cb)
            IN /\ server' = [server EXCEPT ![s] = out.state]
               /\ last' = [Last("handle_set", s, samples, << >>, cb, server[s],
                                out.responses, out.events)
                              EXCEPT !.writes = out.writes]
       /\ set_request_reader' = [set_request_reader EXCEPT ![s] = << >>]
       /\ UNCHANGED << server_callback, get_request_reader, list_request_reader,
                       env_count, clientVars, otherVars, laterVars >>

HandleGetRequests(s) ==
    LET samples == get_request_reader[s]
        out == handle_get_requests(server[s], s, samples)
    IN /\ samples # << >>
       /\ server' = [server EXCEPT ![s] = out.state]
       /\ get_request_reader' = [get_request_reader EXCEPT ![s] = << >>]
       /\ last' = Last("handle_get", s, samples, << >>, << >>, server[s],
                       out.responses, out.events)
       /\ UNCHANGED << server_callback, set_request_reader, list_request_reader,
                       env_count, clientVars, otherVars, laterVars >>

HandleListRequests(s) ==
    LET samples == list_request_reader[s]
        out == handle_list_requests(server[s], s, samples)
    IN /\ samples # << >>
       /\ server' = [server EXCEPT ![s] = out.state]
       /\ list_request_reader' = [list_request_reader EXCEPT ![s] = << >>]
       /\ last' = Last("handle_list", s, samples, << >>, << >>, server[s],
                       out.responses, out.events)
       /\ UNCHANGED << server_callback, set_request_reader, get_request_reader,
                       env_count, clientVars, otherVars, laterVars >>

(***************************************************************************)
(* The application's calls on a server object.                             *)
(***************************************************************************)
ApiUnchanged ==
    UNCHANGED << server_callback, set_request_reader, get_request_reader,
                 list_request_reader, clientVars, otherVars, laterVars >>

ServerSetParameter(s, param) ==
    /\ env_count < MaxEnv
    /\ env_count' = env_count + 1
    /\ server' = [server EXCEPT ![s] = set_parameter(server[s], param)]
    /\ last' = Last("set_parameter", s, << >>, << param >>, << >>, server[s],
                    << >>, << >>)
    /\ ApiUnchanged

ServerSetParameters(s, params) ==
    LET out == set_parameters(server[s], s, params)
    IN /\ env_count < MaxEnv
       /\ env_count' = env_count + 1
       /\ server' = [server EXCEPT ![s] = out.state]
       /\ last' = Last("set_parameters", s, << >>, params, << >>, server[s],
                       << >>, out.events)
       /\ ApiUnchanged

ServerDeleteParameter(s, name) ==
    LET out == delete_parameter(server[s], s, name)
    IN /\ env_count < MaxEnv
       /\ env_count' = env_count + 1
       /\ server' = [server EXCEPT ![s] = out.state]
       /\ last' = Last("delete_parameter", s, << >>, << >>, << >>, server[s],
                       << >>, out.events)
       /\ ApiUnchanged

ServerPublishEvent(s) ==
    LET out == publish_event(server[s], s)
    IN /\ env_count < MaxEnv
       /\ env_count' = env_count + 1
       /\ server' = [server EXCEPT ![s] = out.state]
       /\ last' = Last("publish_event", s, << >>, << >>, << >>, server[s],
                       << >>, out.events)
       /\ ApiUnchanged

(***************************************************************************)
(* Writers of the request topics (a client's request writers or any other  *)
(* participant's), and samples without valid data.                         *)
(***************************************************************************)
WriteSetRequest(request) ==
    /\ set_request_reader' = Deliver(set_request_reader, request)
    /\ UNCHANGED << get_request_reader, list_request_reader >>

WriteGetRequest(request) ==
    /\ get_request_reader' = Deliver(get_request_reader, request)
    /\ UNCHANGED << set_request_reader, list_request_reader >>

WriteListRequest(request) ==
    /\ list_request_reader' = Deliver(list_request_reader, request)
    /\ UNCHANGED << set_request_reader, get_request_reader >>

Unread(s) ==
    Len(set_request_reader[s]) + Len(get_request_reader[s]) + Len(list_request_reader[s])

QueueRoom == \A s \in Nodes : Unread(s) < MaxQueue

SetRequestArrives(request) ==
    /\ QueueRoom
    /\ WriteSetRequest(request)
    /\ last' = Last("request", request.node_id, << request >>, << >>, << >>,
                    EmptyServer, << >>, << >>)
    /\ UNCHANGED << server, server_callback, env_count, clientVars, otherVars, laterVars >>

GetRequestArrives(request) ==
    /\ QueueRoom
    /\ WriteGetRequest(request)
    /\ last' = Last("request", request.node_id, << request >>, << >>, << >>,
                    EmptyServer, << >>, << >>)
    /\ UNCHANGED << server, server_callback, env_count, clientVars, otherVars, laterVars >>

ListRequestArrives(request) ==
    /\ QueueRoom
    /\ WriteListRequest(request)
    /\ last' = Last("request", request.node_id, << request >>, << >>, << >>,
                    EmptyServer, << >>, << >>)
    /\ UNCHANGED << server, server_callback, env_count, clientVars, otherVars, laterVars >>

InvalidRequestSample(s) ==
    /\ QueueRoom
    /\ \/ /\ set_request_reader' =
                [set_request_reader EXCEPT ![s] = Append(@, InvalidSample)]
          /\ UNCHANGED << get_request_reader, list_request_reader >>
       \/ /\ get_request_reader' =
                [get_request_reader EXCEPT ![s] = Append(@, InvalidSample)]
          /\ UNCHANGED << set_request_reader, list_request_reader >>
       \/ /\ list_request_reader' =
                [list_request_reader EXCEPT ![s] = Append(@, InvalidSample)]
          /\ UNCHANGED << set_request_reader, get_request_reader >>
    /\ last' = NoLast
    /\ UNCHANGED << server, server_callback, env_count, clientVars, otherVars, laterVars >>

(***************************************************************************)
(* Spec: a server, the requests that reach it and its handlers.            *)
(***************************************************************************)
InitServers ==
    /\ server = [s \in Nodes |-> EmptyServer]
    /\ server_callback \in [Nodes -> BOOLEAN]
    /\ set_request_reader = [s \in Nodes |-> << >>]
    /\ get_request_reader = [s \in Nodes |-> << >>]
    /\ list_request_reader = [s \in Nodes |-> << >>]
    /\ env_count = 0
    /\ last = NoLast

InitClient ==
    /\ set_response_reader = << >>
    /\ get_response_reader = << >>
    /\ list_response_reader = << >>
    /\ client = [next_request_id |-> 1, pc |-> "idle", kind |-> "none", req_id |-> 0,
                 target_node |-> "", deadline |-> 0,
                 took_match |-> FALSE, took_other |-> FALSE,
                 result |-> [status |-> "none"]]
    /\ now = 0

\* the reader's six and the writer's four status callbacks, in the order the
\* dispatch functions test them
ReaderStatuses ==
    << "subscription_matched", "liveliness_changed", "requested_deadline_missed",
       "requested_incompatible_qos", "sample_lost", "sample_rejected" >>

WriterStatuses ==
    << "publication_matched", "liveliness_lost", "offered_deadline_missed",
       "offered_incompatible_qos" >>

EmptyFunction == "empty"               \* a std::function without a target

InitParticipant ==
    participant = [pc |-> "none", domain_id |-> 0, participant_qos_file |-> "",
                   participant_qos_profile |-> "", fault |-> "none",
                   created_domain |-> -1]

\* no DDSReaderSetup or DDSWriterSetup under dispatch has been constructed yet
InitDispatch ==
    dispatch = [kind |-> "none", callbacks |-> << >>, registered |-> << >>,
                last |-> [op |-> "none"]]

\* the conditions objects attach to the shared AsyncWaitSet: each names the
\* object its handler captured; a reader's read conditions are numbered as
\* set_data_available_handler creates them
Condition(owner, kind, id) == [owner |-> owner, kind |-> kind, id |-> id]

ReaderStatusCondition == Condition("reader", "status", 0)
WriterStatusCondition == Condition("writer", "status", 0)
ServerReadConditions ==
    { Condition("server", "set", 0), Condition("server", "get", 0),
      Condition("server", "list", 0) }

NullCondition == Condition("none", "null", 0)     \* dds::core::null

Owners == {"reader", "writer", "server"}

\* an AsyncWaitSet before any reader, writer or parameter server is constructed
InitAws ==
    aws = [attached |-> {},
           life |-> [o \in Owners |-> "none"],
           read_condition |-> NullCondition,
           created |-> 0,
           dispatched_destroyed |-> FALSE]

InitMatch ==
    match = [pc |-> "idle", expected_dr_matches |-> 0, current_count |-> 0,
             shutdown_requested |-> FALSE, slept |-> FALSE,
             seen_count |-> 0, seen_shutdown |-> FALSE]

InitApp ==
    app = [pc |-> "none", app |-> "none", argv |-> << >>, parse_result |-> "none",
           exit_code |-> "none", signal_handlers |-> FALSE, dds_entities |-> FALSE]

\* run() of dynamic_partition_qos as it starts the input thread: nothing typed yet
InitDyn ==
    dyn = [main_pc |-> "test", input_pc |-> "test", shutdown_requested |-> FALSE,
           stdin |-> << >>, typed |-> 0, eof |-> FALSE, by |-> "none"]

\* main before its try block: no object made, no call made
InitFin ==
    fin = [pc |-> "none", app |-> "none", participant_setup |-> FALSE,
           logger_initialized |-> FALSE, logger_finalize_called |-> FALSE,
           factory_finalize_called |-> FALSE, exit_code |-> "none",
           cerr |-> "none"]

\* no visit of a phase has been completed
NoVisit == [phase |-> "none", iters |-> 0, first |-> FALSE, next |-> "none"]

\* run() of command_override as it reaches the publish loop: writer 1 has the
\* ownership strength of its profile, COMMAND_STRENGTH_10
InitCmd ==
    cmd = [pc |-> "loop", shutdown_requested |-> FALSE,
           current_phase |-> "WRITER1_ONLY", phase_message_count |-> 0,
           strength |-> 10, written |-> << >>, thrown |-> 0, thrown_in |-> {},
           visit_phase |-> "none", visit_iters |-> 0, visit_first |-> FALSE,
           visit_sets |-> 0, visit_unset_write |-> FALSE, done |-> NoVisit]

\* a server before the application has filled its store: no thread is in a
\* handler or a call
InitRace ==
    race = [started |-> FALSE, st |-> EmptyServer, s0 |-> EmptyServer,
            set_pc |-> "idle", set_params |-> << >>, set_i |-> 1,
            get_pc |-> "idle", get_names |-> << >>, get_i |-> 1, get_response |-> << >>,
            app_pc |-> "idle", app_name |-> << >>,
            undefined |-> FALSE]

Init ==
    /\ InitServers /\ InitClient
    /\ InitParticipant /\ InitDispatch /\ InitAws /\ InitMatch /\ InitApp
    /\ InitDyn /\ InitFin /\ InitCmd /\ InitRace

\* the initial state of the specifications of the other parts: the parameter
\* service stays as constructed, without a SetParametersCallback
InitParts == Init /\ server_callback = [s \in Nodes |-> FALSE]

\* the requests written in the domain: any payload for a node that has a server,
\* and requests addressed to the other node names
OtherNodes == TargetNodes \ Nodes

SetRequests ==
    [valid : {TRUE}, node_id : Nodes, request_id : RequestIds,
     parameters : RequestParamLists]
    \cup [valid : {TRUE}, node_id : OtherNodes, request_id : RequestIds,
          parameters : { << [name |-> <<"a">>, value |-> 1] >> }]

GetRequests ==
    [valid : {TRUE}, node_id : Nodes, request_id : RequestIds, names : NameLists]
    \cup [valid : {TRUE}, node_id : OtherNodes, request_id : RequestIds,
          names : { << <<"a">> >> }]

ListRequests ==
    [valid : {TRUE}, node_id : Nodes, request_id : RequestIds,
     prefixes : PrefixLists, depth : Depths]
    \cup [valid : {TRUE}, node_id : OtherNodes, request_id : RequestIds,
          prefixes : { << >> }, depth : {0}]

Next ==
    \/ \E s \in Nodes : HandleSetRequests(s)
    \/ \E s \in Nodes : HandleGetRequests(s)
    \/ \E s \in Nodes : HandleListRequests(s)
    \/ \E request \in SetRequests : SetRequestArrives(request)
    \/ \E request \in GetRequests : GetRequestArrives(request)
    \/ \E request \in ListRequests : ListRequestArrives(request)
    \/ \E s \in Nodes : InvalidRequestSample(s)

Spec == Init /\ [][Next]_vars

(***************************************************************************)
(* SpecStore: the application's calls on the parameter store of a server.  *)
(***************************************************************************)
NextStore ==
    \/ \E s \in Nodes, param \in Parameter : ServerSetParameter(s, param)
    \/ \E s \in Nodes, params \in ParamLists : ServerSetParameters(s, params)
    \/ \E s \in Nodes, name \in Names : ServerDeleteParameter(s, name)
    \/ \E s \in Nodes : ServerPublishEvent(s)

SpecStore == Init /\ [][NextStore]_vars

(***************************************************************************)
(* DDSClientParameterSetup.  A call writes its request and then polls its  *)
(* response reader in wait_for_response; now is the steady clock read from *)
(* the moment the call computes its deadline.                              *)
(***************************************************************************)
\* the test of wait_for_response on one sample
MatchesIgnoringNode(sample, request_id, target_node) ==
    sample.valid /\ sample.request_id = request_id

Matches(sample, request_id, target_node) ==
    /\ sample.valid
    /\ sample.request_id = request_id
    /\ sample.node_id = target_node

\* the first sample of one take() that wait_for_response returns, or 0
FirstMatch(samples, request_id, target_node) ==
    LET hits == { i \in 1..Len(samples) : Matches(samples[i], request_id, target_node) }
    IN IF hits = {} THEN 0 ELSE CHOOSE i \in hits : \A j \in hits : i <= j

\* how wait_for_response ends when the deadline has passed
TimeoutReturnsEmpty ==
    [status |-> "returned", sample |-> [valid |-> TRUE, node_id |-> "", request_id |-> 0]]

TimeoutResult == [status |-> "thrown"]

StartCall(kind, target_node, timeout) ==
    [client EXCEPT !.next_request_id = @ + 1, !.pc = "waiting", !.kind = kind,
                   !.req_id = client.next_request_id, !.target_node = target_node,
                   !.deadline = timeout, !.took_match = FALSE, !.took_other = FALSE,
                   !.result = [status |-> "none"]]

CanCall == client.pc = "idle" /\ client.next_request_id \in CallIds

CallUnchanged ==
    UNCHANGED << server, server_callback, set_response_reader, get_response_reader,
                 list_response_reader, env_count, last, otherVars, laterVars >>

ClientSetParameters(target_node, params, timeout) ==
    /\ CanCall
    /\ WriteSetRequest([valid |-> TRUE, node_id |-> target_node,
                        request_id |-> client.next_request_id, parameters |-> params])
    /\ client' = StartCall("set", target_node, timeout)
    /\ now' = 0
    /\ CallUnchanged

ClientGetParameters(target_node, names, timeout) ==
    /\ CanCall
    /\ WriteGetRequest([valid |-> TRUE, node_id |-> target_node,
                        request_id |-> client.next_request_id, names |-> names])
    /\ client' = StartCall("get", target_node, timeout)
    /\ now' = 0
    /\ CallUnchanged

ClientListParameters(target_node, prefixes, depth, timeout) ==
    /\ CanCall
    /\ WriteListRequest([valid |-> TRUE, node_id |-> target_node,
                         request_id |-> client.next_request_id,
                         prefixes |-> prefixes, depth |-> depth])
    /\ client' = StartCall("list", target_node, timeout)
    /\ now' = 0
    /\ CallUnchanged

ResponseReader(kind) ==
    IF kind = "set" THEN set_response_reader
    ELSE IF kind = "get" THEN get_response_reader
    ELSE list_response_reader

\* history of a call: did its polls take a valid sample carrying its request id
\* and target node, and did they take any other sample
IsAnswer(x) ==
    x.valid /\ x.request_id = client.req_id /\ x.node_id = client.target_node

Took(samples) ==
    [client EXCEPT
        !.took_match = @ \/ \E i \in 1..Len(samples) : IsAnswer(samples[i]),
        !.took_other = @ \/ \E i \in 1..Len(samples) : ~ IsAnswer(samples[i])]

\* one pass of the loop of wait_for_response, or the throw after it
wait_for_response ==
    LET samples == ResponseReader(client.kind)
        hit == FirstMatch(samples, client.req_id, client.target_node)
    IN /\ client.pc = "waiting"
       /\ IF now < client.deadline
          THEN /\ set_response_reader' =
                     IF client.kind = "set" THEN << >> ELSE set_response_reader
               /\ get_response_reader' =
                     IF client.kind = "get" THEN << >> ELSE get_response_reader
               /\ list_response_reader' =
                     IF client.kind = "list" THEN << >> ELSE list_response_reader
               /\ IF hit # 0
                  THEN /\ client' = [Took(samples) EXCEPT
                              !.pc = "idle",
                              !.result = [status |-> "returned", sample |-> samples[hit]]]
                       /\ now' = now
                  ELSE /\ client' = Took(samples)
                       /\ \E d \in SleepTicks : now' = now + d
          ELSE /\ client' = [client EXCEPT !.pc = "idle", !.result = TimeoutResult]
               /\ UNCHANGED << set_response_reader, get_response_reader,
                               list_response_reader, now >>
       /\ UNCHANGED << server, server_callback, set_request_reader, get_request_reader,
                       list_request_reader, env_count, last, otherVars, laterVars >>

\* the samples that can reach a response reader: any server's or other
\* participant's response, and samples without valid data
ResponseSamples ==
    [valid : {TRUE}, node_id : TargetNodes, request_id : RequestIds] \cup { InvalidSample }

ResponseArrives(kind, sample) ==
    /\ Len(set_response_reader) + Len(get_response_reader)
          + Len(list_response_reader) < MaxResponses
    /\ set_response_reader' =
          IF kind = "set" THEN Append(set_response_reader, sample) ELSE set_response_reader
    /\ get_response_reader' =
          IF kind = "get" THEN Append(get_response_reader, sample) ELSE get_response_reader
    /\ list_response_reader' =
          IF kind = "list" THEN Append(list_response_reader, sample)
          ELSE list_response_reader
    /\ UNCHANGED << server, server_callback, set_request_reader, get_request_reader,
                    list_request_reader, client, now, env_count, last, otherVars, laterVars >>

(***************************************************************************)
(* SpecClient: a client, its calls and the samples that reach its response *)
(* readers.  The calling thread keeps running, so the loop of              *)
(* wait_for_response is weakly fair.                                       *)
(***************************************************************************)
CallParams == { << [name |-> <<"a">>, value |-> 1] >> }
CallNames == { << <<"a">> >> }

NextClient ==
    \/ \E t \in TargetNodes, params \in CallParams, timeout \in Timeouts :
          ClientSetParameters(t, params, timeout)
    \/ \E t \in TargetNodes, names \in CallNames, timeout \in Timeouts :
          ClientGetParameters(t, names, timeout)
    \/ \E t \in TargetNodes, timeout \in Timeouts :
          ClientListParameters(t, << >>, 0, timeout)
    \/ wait_for_response
    \/ \E kind \in {"set", "get", "list"}, sample \in ResponseSamples :
          ResponseArrives(kind, sample)

SpecClient == Init /\ [][NextClient]_vars /\ WF_vars(wait_for_response)

(***************************************************************************)
(* Properties of the parameter server.                                     *)
(***************************************************************************)
Indices(q) == [i \in 1..Len(q) |-> i]

ValidIndices(samples) == SelectSeq(Indices(samples), LAMBDA i : samples[i].valid)

HandlerOps == {"handle_set", "handle_get", "handle_list"}

RequestReaders(s) ==
    { set_request_reader[s], get_request_reader[s], list_request_reader[s] }

\* C1: a server takes, and answers, only requests whose node_id is its own node
\* name: every valid sample in its request readers and every valid sample a
\* handler processed carries its node name, a handler writes one response per
\* valid sample it took, and a request written for another node name is in none
\* of the server's readers.
C1_OnlyOwnRequests ==
    /\ \A s \in Nodes : \A q \in RequestReaders(s) : \A i \in 1..Len(q) :
          q[i].valid => q[i].node_id = s
    /\ last.op \in HandlerOps =>
          /\ \A i \in 1..Len(last.samples) :
                last.samples[i].valid => last.samples[i].node_id = last.node
          /\ Len(last.responses) = Len(ValidIndices(last.samples))
    /\ last.op = "request" =>
          \A s \in Nodes : last.node # s =>
              \A q \in RequestReaders(s) : last.samples[1] \notin Range(q)

\* a request for another node name has just been written, after the server has
\* stored parameters from requests of its own, and the server's readers are empty
C1_Witness ==
    /\ last.op = "request"
    /\ last.node \notin Nodes
    /\ server["n1"].parameters # << >>
    /\ Unread("n1") = 0

\* C4: set_parameters(params) with params non-empty and nothing pending writes
\* one event, of this node, with each element of params once: in new_parameters
\* when its name was absent as it was applied, else in changed_parameters; the
\* store then holds the last value given for each name, and nothing is pending.
NothingPending(st) ==
    st.pending_new = << >> /\ st.pending_changed = << >> /\ st.pending_deleted = << >>

IsNewAt(before, params, i) ==
    /\ params[i].name \notin DOMAIN before.parameters
    /\ \A j \in 1..(i - 1) : params[j].name # params[i].name

Pick(params, idx) == [k \in 1..Len(idx) |-> params[idx[k]]]

LastGiven(params, n) ==
    LET given == { i \in 1..Len(params) : params[i].name = n }
    IN params[CHOOSE i \in given : \A j \in given : j <= i]

C4_SetParametersEvent ==
    (/\ last.op = "set_parameters"
     /\ last.params # << >>
     /\ NothingPending(last.before))
    => LET params == last.params
           before == last.before
           after == server[last.node]
           given == { params[i].name : i \in 1..Len(params) }
       IN /\ Len(last.events) = 1
          /\ last.events[1].node_id = last.node
          /\ last.events[1].new_parameters =
                Pick(params, SelectSeq(Indices(params),
                                       LAMBDA i : IsNewAt(before, params, i)))
          /\ last.events[1].changed_parameters =
                Pick(params, SelectSeq(Indices(params),
                                       LAMBDA i : ~ IsNewAt(before, params, i)))
          /\ last.events[1].deleted_parameters = << >>
          /\ DOMAIN after.parameters = (DOMAIN before.parameters) \cup given
          /\ \A n \in DOMAIN after.parameters :
                after.parameters[n] =
                   IF n \in given THEN LastGiven(params, n) ELSE before.parameters[n]
          /\ NothingPending(after)

\* set_parameters on a non-empty store wrote an event with a new and a changed parameter
C4_Witness ==
    /\ last.op = "set_parameters"
    /\ NothingPending(last.before)
    /\ last.before.parameters # << >>
    /\ Len(last.events) = 1
    /\ last.events[1].new_parameters # << >>
    /\ last.events[1].changed_parameters # << >>

\* C5: with a SetParametersCallback, the set handler writes for each valid
\* request exactly what the callback returned, and leaves the store and the
\* pending lists as they were and writes no event.
C5_CallbackAnswers ==
    (last.op = "handle_set" /\ server_callback[last.node])
    => /\ last.responses = Pick(last.cb, ValidIndices(last.samples))
       /\ server[last.node] = last.before
       /\ last.events = << >>

\* a valid request with parameters was answered by the callback
C5_Witness ==
    /\ last.op = "handle_set"
    /\ server_callback[last.node]
    /\ \E i \in 1..Len(last.samples) :
          last.samples[i].valid /\ last.samples[i].parameters # << >>
    /\ Len(last.responses) >= 1
    /\ last.responses[1].results[1].reason = "denied"

RECURSIVE AllParameters(_, _)
\* the parameters of the samples at the indices idx, one after the other
AllParameters(samples, idx) ==
    IF idx = << >> THEN << >>
    ELSE samples[Head(idx)].parameters \o AllParameters(samples, Tail(idx))

ExistingNames(st, names) == SelectSeq(names, LAMBDA n : n \in DOMAIN st.parameters)

\* C15: the get handler writes one response per valid request, in order, with
\* the server's node name, the request's id and the stored values of the
\* requested names that exist, in request order; absent names are left out;
\* the store and the pending lists stay as they were and no event is written.
C15_GetResponse ==
    last.op = "handle_get" =>
        LET idx == ValidIndices(last.samples)
        IN /\ Len(last.responses) = Len(idx)
           /\ \A k \in 1..Len(idx) :
                 LET request == last.samples[idx[k]]
                     response == last.responses[k]
                     existing == ExistingNames(last.before, request.names)
                 IN /\ response.node_id = last.node
                    /\ response.request_id = request.request_id
                    /\ response.parameters =
                          [j \in 1..Len(existing) |-> last.before.parameters[existing[j]]]
           /\ server[last.node] = last.before
           /\ last.events = << >>

\* a request for two names, of which the store held one, was answered
C15_Witness ==
    /\ last.op = "handle_get"
    /\ \E i \in 1..Len(last.samples) :
          /\ last.samples[i].valid
          /\ Len(last.samples[i].names) = 2
          /\ last.samples[i].names[1] # last.samples[i].names[2]
    /\ Len(last.responses) = 1
    /\ Len(last.responses[1].parameters) = 1

(***************************************************************************)
(* Properties of the parameter client.                                     *)
(***************************************************************************)
\* C2: a call returns only a valid sample that carries the call's request id
\* and the call's target node.
C2_ReturnedResponseMatches ==
    client.result.status = "returned"
    => /\ client.result.sample.valid
       /\ client.result.sample.request_id = client.req_id
       /\ client.result.sample.node_id = client.target_node

\* a call returned after its polls had also taken a sample that is not its answer
C2_Witness ==
    /\ client.result.status = "returned"
    /\ client.took_other

\* C3: a call whose polls took no valid sample with its request id and target
\* node ends by throwing, and every call ends.
C3_TimeoutThrows ==
    /\ [](client.pc = "idle" /\ client.result.status # "none" /\ ~ client.took_match
            => client.result.status = "thrown")
    /\ (client.pc = "waiting" ~> client.pc = "idle")

\* a call to a node without a server threw after polling without a match
C3_Witness ==
    /\ client.result.status = "thrown"
    /\ client.target_node \notin Nodes
    /\ client.deadline > 0
    /\ client.took_other

(***************************************************************************)
(* DDSParticipantSetup's constructor.  qos_provider, participant_qos and   *)
(* the DomainParticipant constructors are the middleware's and may throw;  *)
(* fault names the call that does.                                         *)
(***************************************************************************)
MaxDomain == 4                         \* largest domain id passed to the constructor
FallbackDomain == 1                    \* the literal in DomainParticipant(1)

DomainIds == 0..MaxDomain
QosFiles == {"", "qos.xml"}
QosProfiles == {"", "profile"}
Faults == {"none", "qos_provider", "participant_qos", "create_with_qos", "create_default"}

\* the domain of the DomainParticipant the constructor leaves in _participant,
\* or -1 when the constructor itself throws
DDSParticipantSetup(domain_id, participant_qos_file, participant_qos_profile, fault) ==
    IF participant_qos_file # "" /\ participant_qos_profile # ""
    THEN IF fault \in {"qos_provider", "participant_qos", "create_with_qos"}
         THEN FallbackDomain           \* the catch block
         ELSE domain_id
    ELSE IF fault = "create_default"
         THEN FallbackDomain           \* the else branch throws into the catch block
         ELSE FallbackDomain           \* the else branch

Construct(domain_id, participant_qos_file, participant_qos_profile, fault) ==
    /\ participant.pc = "none"
    /\ participant' =
          [pc |-> "constructed", domain_id |-> domain_id,
           participant_qos_file |-> participant_qos_file,
           participant_qos_profile |-> participant_qos_profile,
           fault |-> fault,
           created_domain |-> DDSParticipantSetup(domain_id, participant_qos_file,
                                                  participant_qos_profile, fault)]
    /\ UNCHANGED << paramVars, dispatch, aws, match, app, laterVars >>

\* the participant setup goes out of scope
DestroyParticipant ==
    /\ participant.pc = "constructed"
    /\ participant' = [participant EXCEPT !.pc = "destroyed"]
    /\ UNCHANGED << paramVars, dispatch, aws, match, app, laterVars >>

NextParticipant ==
    \/ \E d \in DomainIds, f \in QosFiles, pr \in QosProfiles, fault \in Faults :
          Construct(d, f, pr, fault)
    \/ DestroyParticipant

SpecParticipant == InitParts /\ [][NextParticipant]_vars

\* C6: the participant is created in the domain given by domain_id, whatever
\* the other arguments are and whichever middleware call throws.
C6_ParticipantInGivenDomain ==
    participant.pc = "constructed" => participant.created_domain = participant.domain_id

(***************************************************************************)
(* Status dispatch of DDSReaderSetup and DDSWriterSetup.  dispatch is one  *)
(* such object: callbacks holds its _*_callback members, registered the    *)
(* last non-empty function the application passed to each set_*_handler.   *)
(***************************************************************************)
MaxCallbacks == 2                      \* statuses of the object that get a callback

Functions == {EmptyFunction, "cb1", "cb2"}     \* what the application passes
DefaultHandler == "default"                    \* default_on_* / _default_on_*

StatusesOf(kind) == IF kind = "reader" THEN ReaderStatuses ELSE WriterStatuses

\* status_changes(): any of the enabled statuses, and for a reader also
\* data_available, which its status condition does not enable
StatusMasks(kind) ==
    LET enabled == Range(StatusesOf(kind))
    IN (SUBSET enabled)
       \cup (IF kind = "reader"
             THEN { {"data_available"} \cup m : m \in { {} } \cup { {st} : st \in enabled } }
             ELSE {})

\* set_*_handler with an empty function stores it all the same
set_handler_storing_empty(callbacks, status, handler) ==
    [callbacks EXCEPT ![status] = handler]

\* set_<status>_handler(handler)
set_handler(callbacks, status, handler) ==
    IF handler = EmptyFunction
    THEN callbacks
    ELSE [callbacks EXCEPT ![status] = handler]

\* on_status_triggered / _on_status_triggered: the handlers run, in order
RECURSIVE on_status_triggered(_, _, _)
on_status_triggered(callbacks, statuses, status_mask) ==
    IF statuses = << >> THEN << >>
    ELSE LET st == Head(statuses)
             rest == on_status_triggered(callbacks, Tail(statuses), status_mask)
         IN IF st \in status_mask
            THEN << [status |-> st,
                     handler |-> IF callbacks[st] # EmptyFunction
                                 THEN callbacks[st] ELSE DefaultHandler] >> \o rest
            ELSE rest

ConstructEntity(kind) ==
    /\ dispatch.kind = "none"
    /\ dispatch' = [dispatch EXCEPT
                      !.kind = kind,
                      !.callbacks = [st \in Range(StatusesOf(kind)) |-> EmptyFunction],
                      !.registered = [st \in Range(StatusesOf(kind)) |-> EmptyFunction]]
    /\ UNCHANGED << paramVars, participant, aws, match, app, laterVars >>

SetHandler(status, handler) ==
    /\ dispatch.kind # "none"
    /\ status \in Range(StatusesOf(dispatch.kind))
    /\ \/ handler = EmptyFunction
       \/ dispatch.callbacks[status] # EmptyFunction
       \/ Cardinality({ st \in DOMAIN dispatch.callbacks :
                          dispatch.callbacks[st] # EmptyFunction }) < MaxCallbacks
    /\ dispatch' = [dispatch EXCEPT
                      !.callbacks = set_handler(dispatch.callbacks, status, handler),
                      !.registered = IF handler = EmptyFunction THEN @
                                     ELSE [@ EXCEPT ![status] = handler],
                      !.last = [op |-> "set", status |-> status, handler |-> handler,
                                before |-> dispatch.callbacks]]
    /\ UNCHANGED << paramVars, participant, aws, match, app, laterVars >>

StatusDispatched(status_mask) ==
    /\ dispatch.kind # "none"
    /\ status_mask \in StatusMasks(dispatch.kind)
    /\ dispatch' = [dispatch EXCEPT
                      !.last = [op |-> "dispatch", status_mask |-> status_mask,
                                ran |-> on_status_triggered(dispatch.callbacks,
                                                            StatusesOf(dispatch.kind),
                                                            status_mask)]]
    /\ UNCHANGED << paramVars, participant, aws, match, app, laterVars >>

AllStatuses == Range(ReaderStatuses) \cup Range(WriterStatuses)

NextDispatch ==
    \/ \E kind \in {"reader", "writer"} : ConstructEntity(kind)
    \/ \E status \in AllStatuses, handler \in Functions : SetHandler(status, handler)
    \/ \E status_mask \in StatusMasks("reader") \cup StatusMasks("writer") :
          StatusDispatched(status_mask)

SpecDispatch == InitParts /\ [][NextDispatch]_vars

\* C7: a dispatch runs, for each enabled status set in status_changes, one
\* handler: the function last registered for that status, or the default
\* handler when none was; it runs none for a status that is not set; and
\* set_*_handler with an empty function leaves every callback as it was.
C7_OneHandlerPerSetStatus ==
    /\ dispatch.last.op = "dispatch" =>
          LET ran == dispatch.last.ran
              mask == dispatch.last.status_mask
          IN /\ \A st \in Range(StatusesOf(dispatch.kind)) :
                   LET runs == { i \in 1..Len(ran) : ran[i].status = st }
                   IN IF st \in mask
                      THEN /\ Cardinality(runs) = 1
                           /\ \A i \in runs :
                                 ran[i].handler =
                                    IF dispatch.registered[st] # EmptyFunction
                                    THEN dispatch.registered[st] ELSE DefaultHandler
                      ELSE runs = {}
             /\ \A i \in 1..Len(ran) : ran[i].status \in mask
    /\ (dispatch.last.op = "set" /\ dispatch.last.handler = EmptyFunction) =>
          dispatch.callbacks = dispatch.last.before

\* a dispatch with a set status that has a callback, a set status that has
\* none, and an unset status that has a callback
C7_Witness ==
    /\ dispatch.last.op = "dispatch"
    /\ \E a, b, c \in Range(StatusesOf(dispatch.kind)) :
          /\ a \in dispatch.last.status_mask /\ dispatch.callbacks[a] # EmptyFunction
          /\ b \in dispatch.last.status_mask /\ dispatch.callbacks[b] = EmptyFunction
          /\ c \notin dispatch.last.status_mask /\ dispatch.callbacks[c] # EmptyFunction

(***************************************************************************)
(* The shared AsyncWaitSet.  attach_condition may throw; detach_condition  *)
(* removes a condition that is attached, and for one that is not attached  *)
(* either does nothing or throws.  The AsyncWaitSet dispatches the handler *)
(* of any attached condition.                                              *)
(***************************************************************************)
MaxReadConditions == 3                 \* set_data_available_handler calls on the reader

ReadCondition(id) == Condition("reader", "read", id)

\* AsyncWaitSet::detach_condition
detach_condition(attached, condition, throws) ==
    IF condition \in attached
    THEN [attached |-> attached \ {condition}, thrown |-> FALSE]
    ELSE [attached |-> attached, thrown |-> throws]

\* AsyncWaitSet::attach_condition
attach_condition(attached, condition, throws) ==
    IF throws
    THEN [attached |-> attached, thrown |-> TRUE]
    ELSE [attached |-> attached \cup {condition}, thrown |-> FALSE]

\* DDSReaderSetup / DDSWriterSetup constructor: attach in a try block
ConstructSetup(owner, attach_throws) ==
    /\ owner \in {"reader", "writer"}
    /\ aws.life[owner] = "none"
    /\ aws' = [aws EXCEPT
                 !.life[owner] = "alive",
                 !.attached = attach_condition(@, Condition(owner, "status", 0),
                                               attach_throws).attached]
    /\ UNCHANGED << paramVars, participant, dispatch, match, app, laterVars >>

\* DDSServerParameterSetup constructor: setup_endpoints attaches the three
\* read conditions outside any try block, so the object exists only when
\* all three calls returned
ConstructServer ==
    /\ aws.life["server"] = "none"
    /\ aws' = [aws EXCEPT !.life["server"] = "alive",
                          !.attached = @ \cup ServerReadConditions]
    /\ UNCHANGED << paramVars, participant, dispatch, match, app, laterVars >>

\* set_data_available_handler without detaching the previous read condition
set_data_available_handler_keeping_previous(a, handler, detach_throws, attach_throws) ==
    IF handler = EmptyFunction THEN a
    ELSE LET condition == ReadCondition(a.created + 1)
         IN [a EXCEPT !.read_condition = condition,
                      !.created = @ + 1,
                      !.attached = attach_condition(@, condition, attach_throws).attached]

\* DDSReaderSetup::set_data_available_handler
set_data_available_handler(a, handler, detach_throws, attach_throws) ==
    IF handler = EmptyFunction THEN a
    ELSE LET detached ==
                 IF a.read_condition # NullCondition
                 THEN detach_condition(a.attached, a.read_condition,
                                       detach_throws).attached
                 ELSE a.attached
             condition == ReadCondition(a.created + 1)
         IN [a EXCEPT !.read_condition = condition,
                      !.created = @ + 1,
                      !.attached = attach_condition(detached, condition,
                                                    attach_throws).attached]

SetDataAvailableHandler(handler, detach_throws, attach_throws) ==
    /\ aws.life["reader"] = "alive"
    /\ aws.created < MaxReadConditions
    /\ aws' = set_data_available_handler(aws, handler, detach_throws, attach_throws)
    /\ UNCHANGED << paramVars, participant, dispatch, match, app, laterVars >>

\* ~DDSReaderSetup: two try blocks, one per condition
DestroyReader(detach_throws) ==
    /\ aws.life["reader"] = "alive"
    /\ LET first == IF aws.read_condition # NullCondition
                     THEN detach_condition(aws.attached, aws.read_condition,
                                           detach_throws).attached
                     ELSE aws.attached
           second == detach_condition(first, ReaderStatusCondition,
                                      detach_throws).attached
       IN aws' = [aws EXCEPT !.life["reader"] = "destroyed", !.attached = second]
    /\ UNCHANGED << paramVars, participant, dispatch, match, app, laterVars >>

\* ~DDSWriterSetup
DestroyWriter(detach_throws) ==
    /\ aws.life["writer"] = "alive"
    /\ aws' = [aws EXCEPT
                 !.life["writer"] = "destroyed",
                 !.attached = detach_condition(@, WriterStatusCondition,
                                               detach_throws).attached]
    /\ UNCHANGED << paramVars, participant, dispatch, match, app, laterVars >>

\* ~DDSServerParameterSetup: three detach calls, each of an attached condition
DestroyServer ==
    /\ aws.life["server"] = "alive"
    /\ LET one == detach_condition(aws.attached, Condition("server", "set", 0), FALSE)
           two == detach_condition(one.attached, Condition("server", "get", 0), FALSE)
           three == detach_condition(two.attached, Condition("server", "list", 0), FALSE)
       IN aws' = [aws EXCEPT !.life["server"] = "destroyed",
                             !.attached = three.attached]
    /\ UNCHANGED << paramVars, participant, dispatch, match, app, laterVars >>

\* a thread of the AsyncWaitSet runs the handler of an attached condition
DispatchCondition(condition) ==
    /\ condition \in aws.attached
    /\ aws' = [aws EXCEPT
                 !.dispatched_destroyed = @ \/ aws.life[condition.owner] = "destroyed"]
    /\ UNCHANGED << paramVars, participant, dispatch, match, app, laterVars >>

Conditions ==
    { ReaderStatusCondition, WriterStatusCondition } \cup ServerReadConditions
    \cup { ReadCondition(id) : id \in 1..MaxReadConditions }

NextAws ==
    \/ \E owner \in {"reader", "writer"}, attach_throws \in BOOLEAN :
          ConstructSetup(owner, attach_throws)
    \/ ConstructServer
    \/ \E handler \in {EmptyFunction, "cb1"}, detach_throws, attach_throws \in BOOLEAN :
          SetDataAvailableHandler(handler, detach_throws, attach_throws)
    \/ \E detach_throws \in BOOLEAN : DestroyReader(detach_throws)
    \/ \E detach_throws \in BOOLEAN : DestroyWriter(detach_throws)
    \/ DestroyServer
    \/ \E condition \in Conditions : DispatchCondition(condition)

SpecAws == InitParts /\ [][NextAws]_vars

MaxMatch == 3                          \* most readers that match the writer

ExpectedMatches == -1..MaxMatch        \* the int the caller passes

\* the loop exits one matched reader short
keeps_waiting_one_short(current_count, expected_dr_matches, shutdown) ==
    current_count < expected_dr_matches - 1 /\ ~ shutdown

\* the condition of the while loop
keeps_waiting(current_count, expected_dr_matches, shutdown) ==
    current_count < expected_dr_matches /\ ~ shutdown

\* the call, up to the loop
CallWaitForDrsToMatch(expected_dr_matches) ==
    /\ match.pc # "waiting"
    /\ match' = [match EXCEPT
                   !.expected_dr_matches = expected_dr_matches,
                   !.pc = IF expected_dr_matches <= 0 THEN "thrown" ELSE "waiting",
                   !.slept = FALSE, !.seen_count = 0, !.seen_shutdown = FALSE]
    /\ UNCHANGED << paramVars, participant, dispatch, aws, app, laterVars >>

\* one test of the loop condition, and the sleep when it holds
wait_for_drs_to_match ==
    /\ match.pc = "waiting"
    /\ IF keeps_waiting(match.current_count, match.expected_dr_matches,
                        match.shutdown_requested)
       THEN match' = [match EXCEPT !.slept = TRUE]
       ELSE match' = [match EXCEPT
                        !.pc = "returned",
                        !.seen_count = match.current_count,
                        !.seen_shutdown =
                            /\ match.current_count < match.expected_dr_matches
                            /\ match.shutdown_requested]
    /\ UNCHANGED << paramVars, participant, dispatch, aws, app, laterVars >>

ReaderMatches ==
    /\ match.current_count < MaxMatch
    /\ match' = [match EXCEPT !.current_count = @ + 1]
    /\ UNCHANGED << paramVars, participant, dispatch, aws, app, laterVars >>

ReaderUnmatches ==
    /\ match.current_count > 0
    /\ match' = [match EXCEPT !.current_count = @ - 1]
    /\ UNCHANGED << paramVars, participant, dispatch, aws, app, laterVars >>

\* application::stop_handler, on SIGINT or SIGTERM
stop_handler ==
    /\ match' = [match EXCEPT !.shutdown_requested = TRUE]
    /\ UNCHANGED << paramVars, participant, dispatch, aws, app, laterVars >>

NextMatch ==
    \/ \E n \in ExpectedMatches : CallWaitForDrsToMatch(n)
    \/ wait_for_drs_to_match
    \/ ReaderMatches
    \/ ReaderUnmatches
    \/ stop_handler

\* the calling thread keeps running: the loop test is weakly fair
SpecMatch == InitParts /\ [][NextMatch]_vars /\ WF_vars(wait_for_drs_to_match)

MatchSatisfied ==
    \/ match.current_count >= match.expected_dr_matches
    \/ match.shutdown_requested

\* C9: the call throws without waiting when n <= 0; for n > 0 it returns only
\* after it saw the matched count at n or more, or saw shutdown requested;
\* and a call that waits while one of the two is true from then on returns.
C9_WaitForDrsToMatch ==
    /\ [](match.pc = "thrown" => match.expected_dr_matches <= 0 /\ ~ match.slept)
    /\ [](match.pc \in {"waiting", "returned"} => match.expected_dr_matches > 0)
    /\ [](match.pc = "returned" =>
            \/ match.seen_count >= match.expected_dr_matches
            \/ match.seen_shutdown)
    /\ []((match.pc = "waiting" /\ []MatchSatisfied) => <>(match.pc = "returned"))

\* the call slept and then returned on seeing enough matched readers, with no
\* shutdown requested
C9_Witness ==
    /\ match.pc = "returned"
    /\ match.slept
    /\ match.expected_dr_matches = MaxMatch
    /\ match.seen_count >= match.expected_dr_matches
    /\ ~ match.shutdown_requested

(***************************************************************************)
(* application::parse_arguments and the start of main.  argv holds the     *)
(* arguments after the program name, so argc = Len(argv) + 1 and           *)
(* argv[arg_processing] is the C argv[arg_processing].                     *)
(***************************************************************************)
MaxArgs == 3                           \* most arguments after the program name

Apps == {"burst_large_data_app", "example_io_app"}

\* the options each parse_arguments reads a value for
ValueOptions(a) ==
    {"-d", "--domain", "-v", "--verbosity", "-q", "--qos-file"}
    \cup (IF a = "burst_large_data_app"
          THEN {"-r", "--send-rate", "-b", "--burst-duration"} ELSE {})

HelpOptions == {"-h", "--help"}

\* the arguments tried: short and long options, a number, an unknown option
Tokens == {"-d", "--qos-file", "-r", "--burst-duration", "-h", "--help", "5", "-x"}

ArgVectors == SeqsUpTo(Tokens, MaxArgs)

\* only the short form asks for help
is_help_short_only(arg) == arg = "-h"

\* strcmp(arg, "-h") == 0 || strcmp(arg, "--help") == 0
is_help(arg) == arg \in HelpOptions

\* the while loop of parse_arguments, from arg_processing on
RECURSIVE parse_arguments(_, _, _)
parse_arguments(a, argv, arg_processing) ==
    LET argc == Len(argv) + 1
    IN IF ~ (arg_processing < argc)
       THEN [parse_result |-> "ok"]
       ELSE IF argc > arg_processing + 1 /\ argv[arg_processing] \in ValueOptions(a)
            THEN parse_arguments(a, argv, arg_processing + 2)
            ELSE IF is_help(argv[arg_processing])
                 THEN [parse_result |-> "exit"]
                 ELSE [parse_result |-> "failure"]

\* main, up to the return after parse_arguments
Main(a, argv) ==
    /\ app.pc = "none"
    /\ LET arguments == parse_arguments(a, argv, 1)
       IN app' = [app EXCEPT
                    !.app = a, !.argv = argv,
                    !.parse_result = arguments.parse_result,
                    !.pc = IF arguments.parse_result = "ok" THEN "parsed" ELSE "returned",
                    !.exit_code = IF arguments.parse_result = "exit" THEN "EXIT_SUCCESS"
                                  ELSE IF arguments.parse_result = "failure"
                                       THEN "EXIT_FAILURE"
                                       ELSE "none"]
    /\ UNCHANGED << paramVars, participant, dispatch, aws, match, laterVars >>

\* main: setup_signal_handlers()
SetupSignalHandlers ==
    /\ app.pc = "parsed"
    /\ app' = [app EXCEPT !.pc = "handlers", !.signal_handlers = TRUE]
    /\ UNCHANGED << paramVars, participant, dispatch, aws, match, laterVars >>

\* main: the participant setup and what follows it
CreateDdsEntities ==
    /\ app.pc = "handlers"
    /\ app' = [app EXCEPT !.pc = "running", !.dds_entities = TRUE]
    /\ UNCHANGED << paramVars, participant, dispatch, aws, match, laterVars >>

NextApp ==
    \/ \E a \in Apps, argv \in ArgVectors : Main(a, argv)
    \/ SetupSignalHandlers
    \/ CreateDdsEntities

SpecApp == InitParts /\ [][NextApp]_vars

\* argv[i] and argv[i + 1] are an option and its value
IsPair(a, argv, i) == i + 1 <= Len(argv) /\ argv[i] \in ValueOptions(a)

\* the position of the first argument that is not part of an option/value
\* pair, scanning from the left; Len(argv) + 1 when there is none
FirstNonPair(a, argv) ==
    CHOOSE i \in 1..(Len(argv) + 1) :
        /\ i % 2 = 1
        /\ \A j \in 1..(i - 1) : j % 2 = 1 => IsPair(a, argv, j)
        /\ ~ IsPair(a, argv, i)

\* C10: main returns EXIT_SUCCESS when the first argument outside a pair is
\* -h or --help, EXIT_FAILURE when it is anything else, both with no signal
\* handler installed and no DDS entity created; with no such argument the
\* parse result is ok and main goes on.
C10_ParseArguments ==
    app.pc # "none" =>
        LET i == FirstNonPair(app.app, app.argv)
        IN IF i > Len(app.argv)
           THEN app.parse_result = "ok" /\ app.pc \in {"parsed", "handlers", "running"}
           ELSE /\ app.pc = "returned"
                /\ ~ app.signal_handlers /\ ~ app.dds_entities
                /\ app.exit_code = IF app.argv[i] \in HelpOptions
                                   THEN "EXIT_SUCCESS" ELSE "EXIT_FAILURE"

\* main returned EXIT_SUCCESS for -h that follows an option/value pair
C10_Witness ==
    /\ app.pc = "returned"
    /\ app.exit_code = "EXIT_SUCCESS"
    /\ Len(app.argv) = 3
    /\ app.argv[3] \in HelpOptions

(***************************************************************************)
(* dynamic_partition_qos: run().  The main thread publishes in a loop      *)
(* until shutdown_requested and then joins the input thread; the input     *)
(* thread reads lines with std::getline, which returns when a line or the  *)
(* end of standard input has arrived.  by records what set the flag.       *)
(***************************************************************************)
MaxLines == 2                          \* lines typed on standard input

Lines == {"", "q", "exit", "Partition1"}

\* main thread: the test of while (!shutdown_requested)
RunLoopTest ==
    /\ dyn.main_pc = "test"
    /\ dyn' = [dyn EXCEPT !.main_pc = IF dyn.shutdown_requested THEN "join" ELSE "publish"]
    /\ UNCHANGED << paramVars, otherVars, fin, cmd, race >>

\* main thread: the body of the loop, write and sleep_for
RunPublish ==
    /\ dyn.main_pc = "publish"
    /\ dyn' = [dyn EXCEPT !.main_pc = "test"]
    /\ UNCHANGED << paramVars, otherVars, fin, cmd, race >>

\* main thread: input_thread.join() returns when the input thread has ended
RunJoin ==
    /\ dyn.main_pc = "join"
    /\ dyn.input_pc = "done"
    /\ dyn' = [dyn EXCEPT !.main_pc = "returned"]
    /\ UNCHANGED << paramVars, otherVars, fin, cmd, race >>

\* input thread: the test of while (!shutdown_requested)
InputLoopTest ==
    /\ dyn.input_pc = "test"
    /\ dyn' = [dyn EXCEPT !.input_pc = IF dyn.shutdown_requested THEN "done" ELSE "getline"]
    /\ UNCHANGED << paramVars, otherVars, fin, cmd, race >>

\* input thread: std::getline returns a line, or nothing at the end of input,
\* and the rest of the loop body runs
InputGetline ==
    /\ dyn.input_pc = "getline"
    /\ dyn.stdin # << >> \/ dyn.eof
    /\ LET input == IF dyn.stdin # << >> THEN Head(dyn.stdin) ELSE ""
           rest == IF dyn.stdin # << >> THEN Tail(dyn.stdin) ELSE << >>
       IN IF input \in {"q", "exit"}
          THEN dyn' = [dyn EXCEPT !.stdin = rest, !.input_pc = "done",
                                  !.shutdown_requested = TRUE,
                                  !.by = IF dyn.shutdown_requested THEN @ ELSE "input"]
          ELSE dyn' = [dyn EXCEPT !.stdin = rest, !.input_pc = "test"]
    /\ UNCHANGED << paramVars, otherVars, fin, cmd, race >>

\* application::stop_handler runs on SIGINT or SIGTERM
DynStopHandler ==
    /\ ~ dyn.shutdown_requested
    /\ dyn' = [dyn EXCEPT !.shutdown_requested = TRUE, !.by = "signal"]
    /\ UNCHANGED << paramVars, otherVars, fin, cmd, race >>

\* the user types a line
UserTypes(line) ==
    /\ dyn.typed < MaxLines
    /\ ~ dyn.eof
    /\ dyn' = [dyn EXCEPT !.stdin = Append(@, line), !.typed = @ + 1]
    /\ UNCHANGED << paramVars, otherVars, fin, cmd, race >>

\* standard input reaches its end
StdinCloses ==
    /\ ~ dyn.eof
    /\ dyn' = [dyn EXCEPT !.eof = TRUE]
    /\ UNCHANGED << paramVars, otherVars, fin, cmd, race >>

RunThreads == RunLoopTest \/ RunPublish \/ RunJoin

InputThread == InputLoopTest \/ InputGetline

NextDyn ==
    \/ RunLoopTest
    \/ RunPublish
    \/ RunJoin
    \/ InputLoopTest
    \/ InputGetline
    \/ DynStopHandler
    \/ \E line \in Lines : UserTypes(line)
    \/ StdinCloses

\* both threads keep running; nothing obliges the user to type
SpecDyn ==
    InitParts /\ [][NextDyn]_vars /\ WF_vars(RunThreads) /\ WF_vars(InputThread)

\* C11: once shutdown_requested is true, run() returns, whether or not
\* another line arrives on standard input.
C11_RunReturnsAfterShutdown ==
    dyn.shutdown_requested ~> dyn.main_pc = "returned"

(***************************************************************************)
(* The applications' main functions from the try block to the return: the  *)
(* participant setup, the DistLogger, run(), and the two finalize calls.   *)
(* Every call that the code guards with try/catch may throw.               *)
(***************************************************************************)
MainApps ==
    {"burst_publisher", "burst_subscriber", "command_override",
     "dynamic_partition_qos", "example_io_app", "example_foxglove",
     "fixed_image_flat_zc", "foxglove_gstreamvideo_app", "foxglove_pointcloud",
     "large_data_app", "large_data_very_fast", "parameter_app"}

\* main calls DistLogger::get_instance().finalize() as the last statement of
\* its try block
FinalizesInTry ==
    {"burst_publisher", "burst_subscriber", "example_foxglove",
     "fixed_image_flat_zc", "foxglove_gstreamvideo_app", "foxglove_pointcloud",
     "parameter_app"}

\* main calls DistLogger::finalize() in a try block of its own after the first
FinalizesAfterTry == {"example_io_app"}

\* run() makes a DDSContextSetup, whose constructor initializes the DistLogger
\* and whose destructor finalizes it
UsesContextSetup == {"large_data_very_fast"}

\* main's calls between run(participant_setup) and finalize_participant_factory()
\* hold no DistLogger finalize
NoLoggerFinalize == {"command_override", "dynamic_partition_qos", "large_data_app"}

\* main wraps finalize_participant_factory() in try/catch
FactoryInTry ==
    {"command_override", "dynamic_partition_qos", "example_io_app",
     "large_data_app", "large_data_very_fast"}

\* the catch of main's try block: the stack is unwound, which destroys the
\* participant setup, the exception is printed and main returns EXIT_FAILURE
CatchInMain(f) ==
    [f EXCEPT !.pc = "returned", !.participant_setup = FALSE,
              !.exit_code = "EXIT_FAILURE", !.cerr = "Exception in main"]

\* main enters its try block
EnterTry(a) ==
    /\ fin.pc = "none"
    /\ fin' = [fin EXCEPT !.pc = IF a \in UsesContextSetup THEN "run" ELSE "setup",
                          !.app = a]
    /\ UNCHANGED << paramVars, otherVars, dyn, cmd, race >>

\* std::make_shared<DDSParticipantSetup>(...)
MakeParticipantSetup(throws) ==
    /\ fin.pc = "setup"
    /\ fin' = IF throws THEN CatchInMain(fin)
              ELSE [fin EXCEPT !.pc = "logger", !.participant_setup = TRUE]
    /\ UNCHANGED << paramVars, otherVars, dyn, cmd, race >>

\* DistLogger::set_options(options); DistLogger::get_instance(); an exception
\* is thrown on to main's catch
InitDistLogger(throws) ==
    /\ fin.pc = "logger"
    /\ fin' = IF throws THEN CatchInMain(fin)
              ELSE [fin EXCEPT !.pc = "run", !.logger_initialized = TRUE]
    /\ UNCHANGED << paramVars, otherVars, dyn, cmd, race >>

\* run(...).  In large_data_very_fast run() makes the DDSContextSetup, which
\* initializes the DistLogger, and destroys it on its way out, by return or by
\* exception, which finalizes the DistLogger.
MainRun(throws) ==
    /\ fin.pc = "run"
    /\ LET ran == IF fin.app \in UsesContextSetup
                  THEN [fin EXCEPT !.logger_initialized = TRUE,
                                   !.logger_finalize_called = TRUE]
                  ELSE fin
       IN fin' = IF throws THEN CatchInMain(ran)
                 ELSE [ran EXCEPT !.pc = "after_run"]
    /\ UNCHANGED << paramVars, otherVars, dyn, cmd, race >>

\* the rest of the try block after run(): the DistLogger finalize where main
\* has one there, then the end of the block, which destroys participant_setup
EndTry(throws) ==
    /\ fin.pc = "after_run"
    /\ throws => fin.app \in FinalizesInTry
    /\ LET called == [fin EXCEPT !.logger_finalize_called =
                                     @ \/ fin.app \in FinalizesInTry]
       IN fin' = IF throws THEN CatchInMain(called)
                 ELSE [called EXCEPT !.participant_setup = FALSE,
                                     !.pc = IF fin.app \in FinalizesAfterTry
                                            THEN "finalize_logger"
                                            ELSE "finalize_factory"]
    /\ UNCHANGED << paramVars, otherVars, dyn, cmd, race >>

\* try { DistLogger::finalize(); } catch: an exception is printed and main
\* goes on
FinalizeLoggerAfterTry(throws) ==
    /\ fin.pc = "finalize_logger"
    /\ fin' = [fin EXCEPT !.logger_finalize_called = TRUE, !.pc = "finalize_factory",
                          !.cerr = IF throws THEN "Error finalizing DistLogger" ELSE @]
    /\ UNCHANGED << paramVars, otherVars, dyn, cmd, race >>

\* DomainParticipant::finalize_participant_factory(); return EXIT_SUCCESS.
\* Where the call has no try/catch an exception leaves main.
FinalizeParticipantFactory(throws) ==
    /\ fin.pc = "finalize_factory"
    /\ fin' = IF throws /\ fin.app \notin FactoryInTry
              THEN [fin EXCEPT !.factory_finalize_called = TRUE, !.pc = "terminated"]
              ELSE [fin EXCEPT !.factory_finalize_called = TRUE, !.pc = "returned",
                               !.exit_code = "EXIT_SUCCESS",
                               !.cerr = IF throws THEN "Error finalizing participant factory"
                                        ELSE @]
    /\ UNCHANGED << paramVars, otherVars, dyn, cmd, race >>

NextFin ==
    \/ \E a \in MainApps : EnterTry(a)
    \/ \E throws \in BOOLEAN : MakeParticipantSetup(throws)
    \/ \E throws \in BOOLEAN : InitDistLogger(throws)
    \/ \E throws \in BOOLEAN : MainRun(throws)
    \/ \E throws \in BOOLEAN : EndTry(throws)
    \/ \E throws \in BOOLEAN : FinalizeLoggerAfterTry(throws)
    \/ \E throws \in BOOLEAN : FinalizeParticipantFactory(throws)

SpecFin == InitParts /\ [][NextFin]_vars

\* C12: in an application that initialises the DistLogger, whenever main has
\* called DomainParticipant::finalize_participant_factory(), the DistLogger
\* finalize has been called before.
C12_LoggerFinalizedBeforeFactory ==
    (fin.factory_finalize_called /\ fin.logger_initialized)
        => fin.logger_finalize_called

(***************************************************************************)
(* command_override: the publish loop of run().  One step is one pass of   *)
(* the loop body: the switch on current_phase, the writes, the increment   *)
(* of phase_message_count or the catch, and the sleep.  A visit of a phase *)
(* is a maximal run of consecutive passes through the same case; the       *)
(* visit_ fields and done record it.                                       *)
(***************************************************************************)
MESSAGES_PER_PHASE == 10

MaxThrows == 2                         \* writes that throw during a run

PublishingPhase ==
    {"WRITER1_ONLY", "WRITERS_1_AND_2", "ALL_WRITERS", "WRITER1_STRENGTH50"}

\* the phase that a case of the switch moves to
NextPhase(phase) ==
    CASE phase = "WRITER1_ONLY"       -> "WRITERS_1_AND_2"
      [] phase = "WRITERS_1_AND_2"    -> "ALL_WRITERS"
      [] phase = "ALL_WRITERS"        -> "WRITER1_STRENGTH50"
      [] phase = "WRITER1_STRENGTH50" -> "WRITER1_ONLY"

\* the writers a case of the switch writes with, in the order of its writes:
\* 1 is command_writer_10, 2 command_writer_20, 3 command_writer_30
PhaseWriters(phase) ==
    CASE phase = "WRITER1_ONLY"       -> << 1 >>
      [] phase = "WRITERS_1_AND_2"    -> << 1, 2 >>
      [] phase = "ALL_WRITERS"        -> << 1, 2, 3 >>
      [] phase = "WRITER1_STRENGTH50" -> << 1, 2, 3 >>

\* one pass of the loop body; the throw_at-th write of the case throws, none
\* when throw_at = 0
PublishIteration(throw_at) ==
    /\ cmd.pc = "loop"
    /\ ~ cmd.shutdown_requested
    /\ throw_at <= Len(PhaseWriters(cmd.current_phase))
    /\ throw_at > 0 => cmd.thrown < MaxThrows
    /\ LET case == cmd.current_phase
           count_in == cmd.phase_message_count
           \* the first three cases test the count before their writes
           moves_on == case # "WRITER1_STRENGTH50" /\ count_in >= MESSAGES_PER_PHASE
           phase1 == IF moves_on THEN NextPhase(case) ELSE case
           count1 == IF moves_on THEN 0 ELSE count_in
           \* the fourth sets the strength when the count is 1
           sets_qos == case = "WRITER1_STRENGTH50" /\ count_in = 1
           writers == PhaseWriters(case)
           throws == throw_at > 0
           written == IF throws THEN SubSeq(writers, 1, throw_at - 1) ELSE writers
           \* and tests the count after its writes
           goes_back == case = "WRITER1_STRENGTH50" /\ count1 >= MESSAGES_PER_PHASE
           phase2 == IF ~ throws /\ goes_back THEN NextPhase(case) ELSE phase1
           count2 == IF throws THEN count1
                     ELSE (IF goes_back THEN 0 ELSE count1) + 1
           new_visit == case # cmd.visit_phase
           sets_before == IF new_visit THEN 0 ELSE cmd.visit_sets
       IN cmd' = [cmd EXCEPT
                    !.current_phase = phase2,
                    !.phase_message_count = count2,
                    !.strength = IF sets_qos THEN 50 ELSE @,
                    !.written = written,
                    !.thrown = IF throws THEN @ + 1 ELSE @,
                    !.thrown_in = IF throws THEN @ \cup {case} ELSE @,
                    !.visit_phase = case,
                    !.visit_iters = IF new_visit THEN 1 ELSE @ + 1,
                    !.visit_first = IF new_visit THEN cmd.visit_phase = "none" ELSE @,
                    !.visit_sets = sets_before + (IF sets_qos THEN 1 ELSE 0),
                    !.visit_unset_write =
                        \/ (~ new_visit /\ @)
                        \/ (sets_before = 0 /\ ~ sets_qos /\ written # << >>),
                    !.done = IF new_visit /\ cmd.visit_phase # "none"
                             THEN [phase |-> cmd.visit_phase, iters |-> cmd.visit_iters,
                                   first |-> cmd.visit_first, next |-> case]
                             ELSE @]
    /\ UNCHANGED << paramVars, otherVars, dyn, fin, race >>

\* application::stop_handler runs on SIGINT or SIGTERM
CmdStopHandler ==
    /\ ~ cmd.shutdown_requested
    /\ cmd' = [cmd EXCEPT !.shutdown_requested = TRUE]
    /\ UNCHANGED << paramVars, otherVars, dyn, fin, race >>

\* the test of while (!shutdown_requested) ends the loop
PublishLoopEnds ==
    /\ cmd.pc = "loop"
    /\ cmd.shutdown_requested
    /\ cmd' = [cmd EXCEPT !.pc = "done"]
    /\ UNCHANGED << paramVars, otherVars, dyn, fin, race >>

NextCmd ==
    \/ \E throw_at \in 0..3 : PublishIteration(throw_at)
    \/ CmdStopHandler
    \/ PublishLoopEnds

SpecCmd == InitParts /\ [][NextCmd]_vars

\* C13: with no write throwing, the passes write with their phase's writers,
\* and every completed visit of a phase, the first one included, had exactly
\* MESSAGES_PER_PHASE passes and was followed by the next phase in the cycle.
C13_TenIterationsPerVisit ==
    cmd.thrown = 0 =>
        /\ cmd.visit_phase # "none" => cmd.written = PhaseWriters(cmd.visit_phase)
        /\ cmd.done # NoVisit =>
              /\ cmd.done.iters = MESSAGES_PER_PHASE
              /\ cmd.done.next = NextPhase(cmd.done.phase)

\* C14: in a visit of WRITER1_STRENGTH50 writer 1's strength has been set to
\* 50 exactly once, and no write of the visit came before that, also when
\* writes of that phase have thrown (and no write of another phase has).
C14_StrengthSetOncePerVisit ==
    (cmd.visit_phase = "WRITER1_STRENGTH50" /\ cmd.thrown_in \subseteq {"WRITER1_STRENGTH50"}) =>
        /\ cmd.visit_sets = 1
        /\ ~ cmd.visit_unset_write
        /\ cmd.strength = 50

(***************************************************************************)
(* The server's store under its threads.  DDSServerParameterSetup has no   *)
(* lock.  The AsyncWaitSet dispatches the handlers of the three read       *)
(* conditions on the threads of its pool, and the application calls        *)
(* delete_parameter on a thread of its own.  A step is one statement on    *)
(* _parameters or the pending lists.  A statement executed while another   *)
(* thread is between its first and last statement on the store, one of the *)
(* two writing, may overlap the other's: a data race, after which the      *)
(* behaviour of the program is undefined.                                  *)
(***************************************************************************)
RaceNode == "n1"

\* the thread is between its first and its last statement on the store
SetActive == race.set_pc \in {"set", "publish"}

GetActive == race.get_pc \in {"has", "at"}

AppActive == race.app_pc \in {"erase", "publish"}

Running == race.started /\ ~ race.undefined

\* the application fills the store before requests arrive
RaceStart(params) ==
    /\ ~ race.started
    /\ LET st == set_parameters(EmptyServer, RaceNode, params).state
       IN race' = [race EXCEPT !.started = TRUE, !.st = st, !.s0 = st]
    /\ UNCHANGED << paramVars, otherVars, dyn, fin, cmd >>

\* handle_set_requests takes a valid request; default_set_handler begins
RaceSetBegin(params) ==
    /\ Running
    /\ race.set_pc = "idle"
    /\ race' = [race EXCEPT !.set_pc = IF params = << >> THEN "publish" ELSE "set",
                            !.set_params = params, !.set_i = 1]
    /\ UNCHANGED << paramVars, otherVars, dyn, fin, cmd >>

\* default_set_handler: set_parameter(param) for the next parameter
RaceSetParameter(races) ==
    /\ Running
    /\ race.set_pc = "set"
    /\ races => (GetActive \/ AppActive)
    /\ race' = IF races THEN [race EXCEPT !.undefined = TRUE]
               ELSE [race EXCEPT !.st = set_parameter(@, race.set_params[race.set_i]),
                                 !.set_i = @ + 1,
                                 !.set_pc = IF race.set_i = Len(race.set_params)
                                            THEN "publish" ELSE "set"]
    /\ UNCHANGED << paramVars, otherVars, dyn, fin, cmd >>

\* default_set_handler: publish_event()
RaceSetPublish(races) ==
    /\ Running
    /\ race.set_pc = "publish"
    /\ races => (GetActive \/ AppActive)
    /\ race' = IF races THEN [race EXCEPT !.undefined = TRUE]
               ELSE [race EXCEPT !.st = publish_event(@, RaceNode).state,
                                 !.set_pc = "write"]
    /\ UNCHANGED << paramVars, otherVars, dyn, fin, cmd >>

\* handle_set_requests: _set_response_writer.write(response)
RaceSetWrite ==
    /\ Running
    /\ race.set_pc = "write"
    /\ race' = [race EXCEPT !.set_pc = "done"]
    /\ UNCHANGED << paramVars, otherVars, dyn, fin, cmd >>

\* handle_get_requests takes a valid request
RaceGetBegin(names) ==
    /\ Running
    /\ race.get_pc = "idle"
    /\ race' = [race EXCEPT !.get_pc = IF names = << >> THEN "write" ELSE "has",
                            !.get_names = names, !.get_i = 1, !.get_response = << >>]
    /\ UNCHANGED << paramVars, otherVars, dyn, fin, cmd >>

\* handle_get_requests: if (has_parameter(param_name))
RaceGetHas(races) ==
    /\ Running
    /\ race.get_pc = "has"
    /\ races => (SetActive \/ AppActive)
    /\ race' = IF races THEN [race EXCEPT !.undefined = TRUE]
               ELSE IF has_parameter(race.st, race.get_names[race.get_i])
               THEN [race EXCEPT !.get_pc = "at"]
               ELSE [race EXCEPT !.get_i = @ + 1,
                                 !.get_pc = IF race.get_i = Len(race.get_names)
                                            THEN "write" ELSE "has"]
    /\ UNCHANGED << paramVars, otherVars, dyn, fin, cmd >>

\* handle_get_requests: response.parameters().push_back(get_parameter(param_name));
\* _parameters.at(name) throws std::out_of_range for a name that is not there
RaceGetAt(races) ==
    /\ Running
    /\ race.get_pc = "at"
    /\ races => (SetActive \/ AppActive)
    /\ race' = IF races THEN [race EXCEPT !.undefined = TRUE]
               ELSE IF has_parameter(race.st, race.get_names[race.get_i])
               THEN [race EXCEPT !.get_response =
                                     Append(@, race.st.parameters[race.get_names[race.get_i]]),
                                 !.get_i = @ + 1,
                                 !.get_pc = IF race.get_i = Len(race.get_names)
                                            THEN "write" ELSE "has"]
               ELSE [race EXCEPT !.get_pc = "thrown"]
    /\ UNCHANGED << paramVars, otherVars, dyn, fin, cmd >>

\* handle_get_requests: _get_response_writer.write(response)
RaceGetWrite ==
    /\ Running
    /\ race.get_pc = "write"
    /\ race' = [race EXCEPT !.get_pc = "done"]
    /\ UNCHANGED << paramVars, otherVars, dyn, fin, cmd >>

\* the application calls delete_parameter(name)
RaceDeleteBegin(name) ==
    /\ Running
    /\ race.app_pc = "idle"
    /\ race' = [race EXCEPT !.app_pc = "erase", !.app_name = name]
    /\ UNCHANGED << paramVars, otherVars, dyn, fin, cmd >>

\* delete_parameter: find, push_back on _pending_deleted, erase
RaceDeleteErase(races) ==
    /\ Running
    /\ race.app_pc = "erase"
    /\ races => (SetActive \/ GetActive)
    /\ race' = IF races THEN [race EXCEPT !.undefined = TRUE]
               ELSE IF has_parameter(race.st, race.app_name)
               THEN [race EXCEPT !.st = [@ EXCEPT !.pending_deleted =
                                                     Append(@, race.st.parameters[race.app_name]),
                                                  !.parameters = Erase(@, race.app_name)],
                                 !.app_pc = "publish"]
               ELSE [race EXCEPT !.app_pc = "publish"]
    /\ UNCHANGED << paramVars, otherVars, dyn, fin, cmd >>

\* delete_parameter: publish_event()
RaceDeletePublish(races) ==
    /\ Running
    /\ race.app_pc = "publish"
    /\ races => SetActive
    /\ race' = IF races THEN [race EXCEPT !.undefined = TRUE]
               ELSE [race EXCEPT !.st = publish_event(@, RaceNode).state,
                                 !.app_pc = "done"]
    /\ UNCHANGED << paramVars, otherVars, dyn, fin, cmd >>

\* the names and parameters of the requests and calls
RaceParams == { q \in RequestParamLists : Len(q) = 2 }

RaceNames == { q \in NameLists : Len(q) = 2 /\ q[1] # q[2] }

NextRace ==
    \/ \E params \in RequestParamLists : RaceStart(params)
    \/ \E params \in RaceParams : RaceSetBegin(params)
    \/ \E races \in BOOLEAN : RaceSetParameter(races)
    \/ \E races \in BOOLEAN : RaceSetPublish(races)
    \/ RaceSetWrite
    \/ \E names \in RaceNames : RaceGetBegin(names)
    \/ \E races \in BOOLEAN : RaceGetHas(races)
    \/ \E races \in BOOLEAN : RaceGetAt(races)
    \/ RaceGetWrite
    \/ \E name \in Names : RaceDeleteBegin(name)
    \/ \E races \in BOOLEAN : RaceDeleteErase(races)
    \/ \E races \in BOOLEAN : RaceDeletePublish(races)

SpecRace == InitParts /\ [][NextRace]_vars

\* the store after the whole of the Set request, and after the whole of the
\* application's call
WholeSet(st) == SetEach(st, race.set_params)

WholeDelete(st) == delete_parameter(st, RaceNode, race.app_name).state

\* the stores that lie wholly before or wholly after the Set request and the
\* application's call, as far as these have begun
SerialStores ==
    LET set_begun == race.set_pc # "idle"
        app_begun == race.app_pc # "idle"
    IN {race.s0}
       \cup (IF set_begun THEN {WholeSet(race.s0)} ELSE {})
       \cup (IF app_begun THEN {WholeDelete(race.s0)} ELSE {})
       \cup (IF set_begun /\ app_begun
             THEN {WholeSet(WholeDelete(race.s0)), WholeDelete(WholeSet(race.s0))}
             ELSE {})

\* C17: the handlers and the application's calls exclude one another, so that
\* a Get response holds the values of a store that lies wholly before or
\* wholly after the Set request and the application's call.
C17_GetReflectsWholeSet ==
    race.get_pc = "done" =>
        \E st \in SerialStores : race.get_response = GetEach(st, race.get_names)

====
